---------------------------- MODULE Spec2Model ----------------------------
(***************************************************************************)
(* A model of src/index.tsx: the AIChat controller (file attachment,       *)
(* transcript rendering, streaming send) together with the DOM elements    *)
(* and the event sources that drive it.                                    *)
(*                                                                         *)
(* A JavaScript string is modelled as a sequence of tokens whose           *)
(* concatenation is the string.  An asterisk, a backtick, a line           *)
(* terminator and a white space character of a text, and the comma of a    *)
(* data URL, are always tokens of their own; a run of other characters     *)
(* may be one token.  The backtick character is written as the token       *)
(* Backtick, since a TLA+ string cannot hold it.                           *)
(***************************************************************************)
EXTENDS Integers, Sequences, FiniteSets, TLC

(***************************************************************************)
(* Bounds of the model.                                                    *)
(***************************************************************************)
MaxSends == 2
MaxReads == 2
MaxChunks == 2
MaxTextLen == 3
MaxChunkLen == 2

(***************************************************************************)
(* Strings.                                                                *)
(***************************************************************************)
Backtick == "BACKTICK"

\* U+2028 LINE SEPARATOR and U+2029 PARAGRAPH SEPARATOR, each one token
LineSeparator == "U+2028"

ParagraphSeparator == "U+2029"

\* U+00A0 NO-BREAK SPACE
NoBreakSpace == "U+00A0"

\* LineTerminator of ECMAScript: LF, CR, LS and PS.  It is what "." of a
\* regular expression without the s flag does not match.
LineTerminators == {"\n", "\r", LineSeparator, ParagraphSeparator}

\* The space separators of Unicode (category Zs) besides SP and NBSP
SpaceSeparators ==
  {"U+1680", "U+2000", "U+2001", "U+2002", "U+2003", "U+2004", "U+2005",
   "U+2006", "U+2007", "U+2008", "U+2009", "U+200A", "U+202F", "U+205F",
   "U+3000"}

\* What String.prototype.trim strips: WhiteSpace of ECMAScript (TAB, VT, FF,
\* SP, NBSP, ZWNBSP and the space separators) and LineTerminator.
WhiteSpace ==
  {" ", "\t", "U+000B", "\f", NoBreakSpace, "U+FEFF"}
    \cup SpaceSeparators \cup LineTerminators

RECURSIVE TrimStart(_)
TrimStart(s) ==
  IF s # <<>> /\ Head(s) \in WhiteSpace THEN TrimStart(Tail(s)) ELSE s

RECURSIVE TrimEnd(_)
TrimEnd(s) ==
  IF s # <<>> /\ s[Len(s)] \in WhiteSpace
    THEN TrimEnd(SubSeq(s, 1, Len(s) - 1))
    ELSE s

\* String.prototype.trim
Trim(s) == TrimEnd(TrimStart(s))

\* !message.trim(): the empty string is falsy
IsBlank(s) == Trim(s) = <<>>

(***************************************************************************)
(* The markdown-to-HTML conversion: four global regular-expression         *)
(* replacements applied one after the other to the result of the previous  *)
(* one.                                                                    *)
(***************************************************************************)

\* s has the tokens of pat at position i
OccursAt(s, pat, i) ==
  /\ i >= 1
  /\ i + Len(pat) - 1 <= Len(s)
  /\ \A k \in 1..Len(pat) : s[i + k - 1] = pat[k]

\* (.*?) followed by pat, tried from position k: the least j >= k with pat at
\* j and no line terminator in s[k..j-1] ("." matches no line terminator);
\* 0 when there is none.
LazyClose(s, pat, k) ==
  LET ok == { j \in k..Len(s) :
                /\ OccursAt(s, pat, j)
                /\ \A m \in k..(j - 1) : s[m] \notin LineTerminators }
  IN  IF ok = {} THEN 0 ELSE CHOOSE j \in ok : \A j2 \in ok : j <= j2

\* s.replace(/<mark>(.*?)<mark>/g, open + "$1" + close), scanning from i
RECURSIVE ReplaceDelimited(_, _, _, _, _)
ReplaceDelimited(s, mark, open, close, i) ==
  IF i > Len(s) THEN <<>>
  ELSE IF OccursAt(s, mark, i) /\ LazyClose(s, mark, i + Len(mark)) # 0
    THEN LET j == LazyClose(s, mark, i + Len(mark))
         IN  <<open>> \o SubSeq(s, i + Len(mark), j - 1) \o <<close>>
               \o ReplaceDelimited(s, mark, open, close, j + Len(mark))
    ELSE <<s[i]>> \o ReplaceDelimited(s, mark, open, close, i + 1)

\* .replace(/\*\*(.*?)\*\*/g, '<strong>$1</strong>')
ReplaceBold(s) == ReplaceDelimited(s, <<"*", "*">>, "<strong>", "</strong>", 1)

\* .replace(/\*(.*?)\*/g, '<em>$1</em>')
ReplaceItalics(s) == ReplaceDelimited(s, <<"*">>, "<em>", "</em>", 1)

\* the first backtick at or after k; 0 when there is none
NextBacktick(s, k) ==
  LET at == { j \in k..Len(s) : s[j] = Backtick }
  IN  IF at = {} THEN 0 ELSE CHOOSE j \in at : \A j2 \in at : j <= j2

\* .replace(/`([^`]+)`/g, '<code>$1</code>'), scanning from i
RECURSIVE ReplaceCodeFrom(_, _)
ReplaceCodeFrom(s, i) ==
  IF i > Len(s) THEN <<>>
  ELSE IF s[i] = Backtick /\ NextBacktick(s, i + 1) > i + 1
    THEN LET j == NextBacktick(s, i + 1)
         IN  <<"<code>">> \o SubSeq(s, i + 1, j - 1) \o <<"</code>">>
               \o ReplaceCodeFrom(s, j + 1)
    ELSE <<s[i]>> \o ReplaceCodeFrom(s, i + 1)

ReplaceCode(s) == ReplaceCodeFrom(s, 1)

\* .replace(/(\r\n|\n|\r)/gm, '<br>'), scanning from i
RECURSIVE ReplaceNewlinesFrom(_, _)
ReplaceNewlinesFrom(s, i) ==
  IF i > Len(s) THEN <<>>
  ELSE IF OccursAt(s, <<"\r", "\n">>, i)
    THEN <<"<br>">> \o ReplaceNewlinesFrom(s, i + 2)
  ELSE IF s[i] \in {"\n", "\r"}
    THEN <<"<br>">> \o ReplaceNewlinesFrom(s, i + 1)
    ELSE <<s[i]>> \o ReplaceNewlinesFrom(s, i + 1)

ReplaceNewlines(s) == ReplaceNewlinesFrom(s, 1)

\* The conversion of renderMessage.  (The replacements are chained through
\* one-element sets so that each is applied to the value of the one before.)
FormatMessage(s) ==
  CHOOSE htmlContent \in
    { ReplaceNewlines(c) : c \in
      { ReplaceCode(e) : e \in
        { ReplaceItalics(b) : b \in
          { ReplaceBold(message) : message \in {s} } } } } : TRUE

\* FormatBuffer with the italics replaced before the bold
FormatBufferItalicsFirst(s) ==
  CHOOSE htmlContent \in
    { ReplaceNewlines(c) : c \in
      { ReplaceCode(e) : e \in
        { ReplaceBold(b) : b \in
          { ReplaceItalics(buffer) : buffer \in {s} } } } } : TRUE

\* The conversion of the streaming loop, applied to the buffer.
FormatBuffer(s) ==
  CHOOSE htmlContent \in
    { ReplaceNewlines(c) : c \in
      { ReplaceCode(e) : e \in
        { ReplaceItalics(b) : b \in
          { ReplaceBold(buffer) : buffer \in {s} } } } } : TRUE

(***************************************************************************)
(* The values the environment supplies.                                    *)
(***************************************************************************)

\* What the user may type into promptInput (an <input>: no LF and no CR).
Texts == { <<>>, <<" ", NoBreakSpace>>, <<"*", "b", "*">> }

\* The files the user may pick: name, MIME type and the base64 encoding of
\* the content.
Files ==
  { [name |-> <<"data.csv">>, type |-> "text/csv", base64 |-> <<"YSxi">>],
    [name |-> <<"*", "q", "*", ".xlsx">>, type |-> "application/vnd.ms-excel",
     base64 |-> <<"UEsDBA==">>] }

\* fileInput.files?.[0] when nothing is selected; this.attachedFile = null
NoFile == [null |-> TRUE]

\* The chunks a response stream may deliver.  A chunk with no text part has
\* chunk.text undefined.
Chunks ==
  { [undefined |-> FALSE, text |-> <<"*", "*", "a">>],
    [undefined |-> TRUE, text |-> <<>>] }

\* The values sendMessageStream or the stream may throw: an Error with a
\* message, or a value that is no Error.
Thrown ==
  { [isError |-> TRUE, message |-> <<"Network error">>],
    [isError |-> FALSE, message |-> <<>>] }

\* `this.chat.sendMessageStream` with this.chat undefined
ChatUndefinedError ==
  [isError |-> TRUE,
   message |-> <<"Cannot read properties of undefined (reading 'sendMessageStream')">>]

WelcomeText ==
  <<"Hello! I'm your AI Tutor from riteshacademy. Ask me anything about Power BI, SQL, Python, ML, and Advanced Excel. You can also attach a CSV or Excel file!">>

ApiKeyErrorText == <<"API_KEY environment variable not set.">>

(***************************************************************************)
(* The state.                                                              *)
(***************************************************************************)
VARIABLES
  apiKey,        \* process.env.API_KEY is set
  chat,          \* this.chat: "session" or "undefined"
  listening,     \* the change listener of fileInput is registered
  attachedFile,  \* this.attachedFile: NoFile or [name, mimeType, data, rid]
  filePreview,   \* filePreviewContainer.innerHTML
  fileInputFile, \* fileInput.files[0]: NoFile or a file
  readers,       \* the FileReaders whose read is in progress
  nextRid,       \* the number of the next read (rid: history, not program state)
  messages,      \* the children of messagesContainer, in order
  loading,       \* app has the class 'loading'
  disabled,      \* promptInput.disabled
  promptValue,   \* promptInput.value
  sends,         \* the invocations of sendMessage that passed its first line
  calls,         \* history: the calls of chat.sendMessageStream, in order
  loaded,        \* history: the reads that succeeded, in order
  failed         \* history: the reads that failed, in order

vars ==
  <<apiKey, chat, listening, attachedFile, filePreview, fileInputFile, readers,
    nextRid, messages, loading, disabled, promptValue, sends, calls, loaded,
    failed>>

\* The DOM elements and the field the methods of AIChat read and write,
\* gathered so that a method is a function from one such record to the next.
Dom ==
  [attachedFile |-> attachedFile, filePreview |-> filePreview,
   fileInputFile |-> fileInputFile, messages |-> messages,
   loading |-> loading, disabled |-> disabled, promptValue |-> promptValue]

SetDom(d) ==
  /\ attachedFile' = d.attachedFile
  /\ filePreview' = d.filePreview
  /\ fileInputFile' = d.fileInputFile
  /\ messages' = d.messages
  /\ loading' = d.loading
  /\ disabled' = d.disabled
  /\ promptValue' = d.promptValue

(***************************************************************************)
(* The functions and methods of src/index.tsx.                             *)
(***************************************************************************)
showLoading(d) == [d EXCEPT !.loading = TRUE, !.disabled = TRUE]

\* hideLoading with `promptInput.disabled = false` left out
hideLoadingKeepsDisabled(d) == [d EXCEPT !.loading = FALSE]

hideLoading(d) == [d EXCEPT !.loading = FALSE, !.disabled = FALSE]

\* The markup renderFilePreview writes: the name and the remove button.
PreviewHtml(name) ==
  <<"<div class=\"file-preview\"><span>">> \o name
    \o <<"</span><button class=\"remove-file-btn\" aria-label=\"Remove file\">&times;</button></div>">>

renderFilePreview(d) ==
  IF d.attachedFile = NoFile THEN d
  ELSE [d EXCEPT !.filePreview = PreviewHtml(d.attachedFile.name)]

\* removeFile with `this.attachedFile = null` left out
removeFileKeepsAttachment(d) ==
  [d EXCEPT !.fileInputFile = NoFile, !.filePreview = <<>>]

\* removeFile with `fileInput.value = ''` left out
removeFileKeepsSelection(d) ==
  [d EXCEPT !.attachedFile = NoFile, !.filePreview = <<>>]

removeFile(d) ==
  [d EXCEPT !.attachedFile = NoFile, !.fileInputFile = NoFile,
            !.filePreview = <<>>]

\* An entry of the transcript: the class of the element, its content, and
\* (history) the send that created it, 0 for the constructor.
Entry(sender, content, send) ==
  [sender |-> sender, content |-> content, send |-> send]

renderMessage(d, message, sender, send) ==
  [d EXCEPT !.messages = Append(@, Entry(sender, FormatMessage(message), send))]

renderError(d, message, send) ==
  hideLoading(
    [d EXCEPT !.messages = Append(@, Entry("error", <<"Error: ">> \o message, send))])

\* reader.readAsDataURL(file): data:mime/type;base64,DATA
readAsDataURL(file) == <<"data:", file.type, ";base64", ",">> \o file.base64

\* dataUrl.indexOf(','), counted from 0; -1 when there is no comma
IndexOfComma(s) ==
  LET at == { j \in 1..Len(s) : s[j] = "," }
  IN  IF at = {} THEN -1 ELSE (CHOOSE j \in at : \A j2 \in at : j <= j2) - 1

\* dataUrl.substring(from), from counted from 0
Substring(s, from) == SubSeq(s, from + 1, Len(s))

\* onloadend that keeps an attachment that is already there
onloadendKeepsFirst(d, file, rid) ==
  IF d.attachedFile # NoFile THEN d
  ELSE renderFilePreview(
         [d EXCEPT !.attachedFile =
            [name |-> file.name, mimeType |-> file.type,
             data |-> Substring(readAsDataURL(file),
                                IndexOfComma(readAsDataURL(file)) + 1),
             rid |-> rid]])

\* onloadend that drops a read when a file selected later is already held
onloadendNewestSelection(d, file, rid) ==
  IF d.attachedFile # NoFile /\ d.attachedFile.rid > rid THEN d
  ELSE renderFilePreview(
         [d EXCEPT !.attachedFile =
            [name |-> file.name, mimeType |-> file.type,
             data |-> Substring(readAsDataURL(file),
                                IndexOfComma(readAsDataURL(file)) + 1),
             rid |-> rid]])

\* The body of reader.onloadend for a read that succeeded.
onloadend(d, file, rid) ==
  LET dataUrl == readAsDataURL(file)
      base64Data == Substring(dataUrl, IndexOfComma(dataUrl) + 1)
  IN  renderFilePreview(
        [d EXCEPT !.attachedFile =
           [name |-> file.name, mimeType |-> file.type, data |-> base64Data,
            rid |-> rid]])

\* ErrorText that never uses error.message
ErrorTextUnknown(error) == <<"An unknown error occurred.">>

\* onloadend of a failed read that removes the attachment
onloadendFailedClears(d) == removeFile(d)

\* The body of reader.onloadend for a read that failed: reader.result is
\* null and dataUrl.indexOf throws before anything is assigned.
onloadendFailed(d) == d

\* handleFileChange that removes the attachment when no file is selected
handleFileChangeClears(d) ==
  IF d.fileInputFile = NoFile THEN [dom |-> removeFile(d), reads |-> FALSE]
  ELSE [dom |-> d, reads |-> TRUE]

\* handleFileChange: what it leaves of the DOM and the attachment, and
\* whether it starts a read of fileInput.files[0].
handleFileChange(d) ==
  IF d.fileInputFile = NoFile THEN [dom |-> d, reads |-> FALSE]
  ELSE [dom |-> d, reads |-> TRUE]

\* error instanceof Error ? error.message : 'An unknown error occurred.'
ErrorText(error) ==
  IF error.isError THEN error.message ELSE <<"An unknown error occurred.">>

\* buffer += chunk.text
AppendChunk(buffer, chunk) ==
  buffer \o (IF chunk.undefined THEN <<"undefined">> ELSE chunk.text)

\* message = `Analyze this file: ${this.attachedFile.name}`
AnalyzeMessage(name) == <<"Analyze this file: ">> \o name

\* EffectiveMessage that tests `message === ''` in place of !message.trim()
EffectiveMessageEmptyOnly(d, message) ==
  IF message = <<>> /\ d.attachedFile # NoFile
    THEN AnalyzeMessage(d.attachedFile.name)
    ELSE message

\* Returns that tests `message === ''` in place of !message.trim()
ReturnsEmptyOnly(d, message) == message = <<>> /\ d.attachedFile = NoFile

\* if (!message.trim() && !this.attachedFile) return;
Returns(d, message) == IsBlank(message) /\ d.attachedFile = NoFile

\* The message sendMessage goes on with.
EffectiveMessage(d, message) ==
  IF IsBlank(message) /\ d.attachedFile # NoFile
    THEN AnalyzeMessage(d.attachedFile.name)
    ELSE message

\* The parts sendMessage builds.
Contents(d, message) ==
  (IF d.attachedFile # NoFile
     THEN <<[inlineData |-> [mimeType |-> d.attachedFile.mimeType,
                             data |-> d.attachedFile.data]]>>
     ELSE <<>>)
    \o <<[text |-> message]>>

\* history: the read an attachment came from, 0 for no attachment
HeldRid(file) == IF file = NoFile THEN 0 ELSE file.rid

\* PrepareSend with the call of removeFile left out
PrepareSendKeepsFile(d, message, send) ==
  LET msg == EffectiveMessage(d, message)
      d3 == [renderMessage(showLoading(d), msg, "user", send)
               EXCEPT !.promptValue = <<>>]
  IN  [dom |-> d3, contents |-> Contents(d3, msg),
       rid |-> HeldRid(d3.attachedFile)]

\* PrepareSend with the clearing of promptInput.value left out
PrepareSendKeepsInput(d, message, send) ==
  LET msg == EffectiveMessage(d, message)
      d2 == renderMessage(showLoading(d), msg, "user", send)
  IN  [dom |-> removeFile(d2), contents |-> Contents(d2, msg),
       rid |-> HeldRid(d2.attachedFile)]

\* PrepareSend that builds the parts after the call of removeFile
PrepareSendClearsFirst(d, message, send) ==
  LET msg == EffectiveMessage(d, message)
      d3 == [renderMessage(showLoading(d), msg, "user", send)
               EXCEPT !.promptValue = <<>>]
  IN  [dom |-> removeFile(d3), contents |-> Contents(removeFile(d3), msg),
       rid |-> HeldRid(d3.attachedFile)]

\* sendMessage from showLoading() to removeFile(): what the DOM and the
\* attachment are when the chat session is called, and the parts passed.
PrepareSend(d, message, send) ==
  LET msg == EffectiveMessage(d, message)
      d1 == showLoading(d)
      d2 == renderMessage(d1, msg, "user", send)
      d3 == [d2 EXCEPT !.promptValue = <<>>]
  IN  [dom |-> removeFile(d3), contents |-> Contents(d3, msg),
       rid |-> HeldRid(d3.attachedFile)]

\* finally { hideLoading() }
Finally(d) == hideLoading(d)

\* catch (error) { this.renderError(...) } and then the finally block
CatchFinally(d, error, send) ==
  Finally(renderError(d, ErrorText(error), send))

\* ProcessChunk that converts the arrived text alone and adds the result to
\* what the element shows
ProcessChunkDelta(d, snd, chunk, send) ==
  LET buffer == AppendChunk(snd.buffer, chunk)
      d1 == IF snd.aiMessageElement = 0
              THEN renderMessage(d, <<".", ".", ".">>, "ai", send)
              ELSE d
      el == IF snd.aiMessageElement = 0 THEN Len(d1.messages)
            ELSE snd.aiMessageElement
      shown == IF snd.aiMessageElement = 0 THEN <<>> ELSE d.messages[el].content
  IN  [dom |-> [d1 EXCEPT !.messages[el].content =
                  shown \o FormatBuffer(AppendChunk(<<>>, chunk))],
       buffer |-> buffer, aiMessageElement |-> el]

\* ProcessChunk that writes to the last child of messagesContainer in place
\* of aiMessageElement
ProcessChunkLastChild(d, snd, chunk, send) ==
  LET buffer == AppendChunk(snd.buffer, chunk)
      d1 == IF snd.aiMessageElement = 0
              THEN renderMessage(d, <<".", ".", ".">>, "ai", send)
              ELSE d
      el == Len(d1.messages)
  IN  [dom |-> [d1 EXCEPT !.messages[el].content = FormatBuffer(buffer)],
       buffer |-> buffer,
       aiMessageElement |-> IF snd.aiMessageElement = 0 THEN el
                            ELSE snd.aiMessageElement]

\* OpenStream that creates the AI element before the first chunk
OpenStreamPlaceholder(d, send) ==
  LET d1 == renderMessage(d, <<".", ".", ".">>, "ai", send)
  IN  [dom |-> d1, buffer |-> <<>>, aiMessageElement |-> Len(d1.messages)]

\* The await of sendMessageStream has resolved: aiMessageElement = null and
\* buffer = '' before the loop; the DOM is not touched.
OpenStream(d, send) == [dom |-> d, buffer |-> <<>>, aiMessageElement |-> 0]

\* One turn of the for-await loop on an arrived chunk: the DOM, the buffer
\* and aiMessageElement (the place of the element in messages, 0 for null).
ProcessChunk(d, snd, chunk, send) ==
  LET buffer == AppendChunk(snd.buffer, chunk)
      d1 == IF snd.aiMessageElement = 0
              THEN renderMessage(d, <<".", ".", ".">>, "ai", send)
              ELSE d
      el == IF snd.aiMessageElement = 0 THEN Len(d1.messages)
            ELSE snd.aiMessageElement
  IN  [dom |-> [d1 EXCEPT !.messages[el].content = FormatBuffer(buffer)],
       buffer |-> buffer, aiMessageElement |-> el]

(***************************************************************************)
(* The initial state: the module has run, new AIChat() has returned.       *)
(***************************************************************************)
EmptyDom ==
  [attachedFile |-> NoFile, filePreview |-> <<>>, fileInputFile |-> NoFile,
   messages |-> <<>>, loading |-> FALSE, disabled |-> FALSE,
   promptValue |-> <<>>]

\* constructor() and initialize()
Constructed(key) ==
  IF ~key THEN renderError(EmptyDom, ApiKeyErrorText, 0)
  ELSE renderMessage(EmptyDom, WelcomeText, "ai", 0)

Init ==
  /\ apiKey \in BOOLEAN
  /\ chat = IF apiKey THEN "session" ELSE "undefined"
  /\ listening = apiKey
  /\ attachedFile = Constructed(apiKey).attachedFile
  /\ filePreview = Constructed(apiKey).filePreview
  /\ fileInputFile = Constructed(apiKey).fileInputFile
  /\ messages = Constructed(apiKey).messages
  /\ loading = Constructed(apiKey).loading
  /\ disabled = Constructed(apiKey).disabled
  /\ promptValue = Constructed(apiKey).promptValue
  /\ readers = {}
  /\ nextRid = 1
  /\ sends = <<>>
  /\ calls = <<>>
  /\ loaded = <<>>
  /\ failed = <<>>

(***************************************************************************)
(* The events.                                                             *)
(***************************************************************************)

\* The change event of fileInput, which fires when the selection changes,
\* with `file` selected (NoFile: the selection was emptied), and
\* handleFileChange when it is registered.
FileChange(file) ==
  /\ file # fileInputFile
  /\ LET d == [Dom EXCEPT !.fileInputFile = file]
     IN  IF listening
           THEN /\ SetDom(handleFileChange(d).dom)
                /\ IF handleFileChange(d).reads
                     THEN /\ nextRid <= MaxReads
                          /\ readers' = readers \cup
                               {[rid |-> nextRid, file |-> file]}
                          /\ nextRid' = nextRid + 1
                     ELSE UNCHANGED <<readers, nextRid>>
           ELSE SetDom(d) /\ UNCHANGED <<readers, nextRid>>
  /\ UNCHANGED <<apiKey, chat, listening, sends, calls, loaded, failed>>

\* A read ends with success: reader.onloadend runs with the data URL.
ReadSucceeds(r) ==
  /\ r \in readers
  /\ readers' = readers \ {r}
  /\ SetDom(onloadend(Dom, r.file, r.rid))
  /\ loaded' = Append(loaded, [rid |-> r.rid, over |-> HeldRid(attachedFile)])
  /\ UNCHANGED <<apiKey, chat, listening, nextRid, sends, calls, failed>>

\* A read ends with an error: reader.result is null, and onloadend throws
\* at dataUrl.indexOf before it assigns anything.
ReadFails(r) ==
  /\ r \in readers
  /\ readers' = readers \ {r}
  /\ SetDom(onloadendFailed(Dom))
  /\ failed' = Append(failed, [rid |-> r.rid, over |-> HeldRid(attachedFile)])
  /\ UNCHANGED <<apiKey, chat, listening, nextRid, sends, calls, loaded>>

\* A click on the remove button, which exists while the preview is shown.
RemoveClick ==
  /\ filePreview # <<>>
  /\ SetDom(removeFile(Dom))
  /\ UNCHANGED <<apiKey, chat, listening, readers, nextRid, sends, calls,
                 loaded, failed>>

\* An invocation of sendMessage: where it is (Sending: awaiting
\* sendMessageStream; Streaming: awaiting the next chunk; Done), its locals
\* contents, buffer and aiMessageElement, and as history whether the text it
\* was called with was blank, the attachment held then, the chunks it got
\* and what it caught.
NewSend(pc, contents, text, file) ==
  [pc |-> pc, contents |-> contents, buffer |-> <<>>, aiMessageElement |-> 0,
   blank |-> IsBlank(text), file |-> file, chunks |-> <<>>, thrown |-> <<>>]

\* The submit event of promptForm with `text` in promptInput (the user can
\* edit the input only while it is enabled): aiChat.sendMessage(text) up to
\* its first await.  The listener does not look at promptInput.disabled.
Submit(text) ==
  /\ disabled => text = promptValue
  /\ IF Returns([Dom EXCEPT !.promptValue = text], text)
       THEN /\ promptValue' = text
            /\ UNCHANGED <<apiKey, chat, listening, attachedFile, filePreview,
                           fileInputFile, readers, nextRid, messages, loading,
                           disabled, sends, calls, loaded, failed>>
       ELSE LET send == Len(sends) + 1
                p == PrepareSend([Dom EXCEPT !.promptValue = text], text, send)
            IN  /\ send <= MaxSends
                /\ IF chat = "undefined"
                     THEN /\ SetDom(CatchFinally(p.dom, ChatUndefinedError, send))
                          /\ sends' = Append(sends,
                               [NewSend("Done", p.contents, text, attachedFile)
                                  EXCEPT !.thrown = <<ChatUndefinedError>>])
                          /\ calls' = calls
                     ELSE /\ SetDom(p.dom)
                          /\ sends' = Append(sends,
                               NewSend("Sending", p.contents, text, attachedFile))
                          /\ calls' = Append(calls,
                               [send |-> send, message |-> p.contents,
                                rid |-> p.rid, nLoaded |-> Len(loaded),
                                attachedFile |-> p.dom.attachedFile,
                                filePreview |-> p.dom.filePreview,
                                promptValue |-> p.dom.promptValue,
                                nMessages |-> Len(p.dom.messages)])
                /\ UNCHANGED <<apiKey, chat, listening, readers, nextRid,
                               loaded, failed>>

\* The promise of sendMessageStream resolves with the response stream.
CallResolves(s) ==
  /\ s \in 1..Len(sends)
  /\ sends[s].pc = "Sending"
  /\ LET p == OpenStream(Dom, s)
     IN  /\ SetDom(p.dom)
         /\ sends' = [sends EXCEPT ![s].pc = "Streaming",
                                   ![s].buffer = p.buffer,
                                   ![s].aiMessageElement = p.aiMessageElement]
  /\ UNCHANGED <<apiKey, chat, listening, readers, nextRid, calls, loaded,
                 failed>>

\* The stream yields a chunk.
ChunkArrives(s, chunk) ==
  /\ s \in 1..Len(sends)
  /\ sends[s].pc = "Streaming"
  /\ Len(sends[s].chunks) < MaxChunks
  /\ LET p == ProcessChunk(Dom, sends[s], chunk, s)
     IN  /\ SetDom(p.dom)
         /\ sends' = [sends EXCEPT ![s].buffer = p.buffer,
                                   ![s].aiMessageElement = p.aiMessageElement,
                                   ![s].chunks = Append(@, chunk)]
  /\ UNCHANGED <<apiKey, chat, listening, readers, nextRid, calls, loaded, failed>>

\* The stream is exhausted: the loop ends, finally runs.
StreamEnds(s) ==
  /\ s \in 1..Len(sends)
  /\ sends[s].pc = "Streaming"
  /\ SetDom(Finally(Dom))
  /\ sends' = [sends EXCEPT ![s].pc = "Done"]
  /\ UNCHANGED <<apiKey, chat, listening, readers, nextRid, calls, loaded, failed>>

\* The promise of sendMessageStream rejects, or the stream throws.
Throws(s, error) ==
  /\ s \in 1..Len(sends)
  /\ sends[s].pc \in {"Sending", "Streaming"}
  /\ SetDom(CatchFinally(Dom, error, s))
  /\ sends' = [sends EXCEPT ![s].pc = "Done", ![s].thrown = <<error>>]
  /\ UNCHANGED <<apiKey, chat, listening, readers, nextRid, calls, loaded, failed>>

\* What the chat session and its stream do for send s, with the chunks and
\* the thrown values drawn from the given sets.
TransportOf(s, chunks, thrown) ==
  \/ CallResolves(s)
  \/ \E chunk \in chunks : ChunkArrives(s, chunk)
  \/ StreamEnds(s)
  \/ \E error \in thrown : Throws(s, error)

Transport == \E s \in 1..MaxSends : TransportOf(s, Chunks, Thrown)

Next ==
  \/ \E file \in Files \cup {NoFile} : FileChange(file)
  \/ \E r \in readers : ReadSucceeds(r)
  \/ \E r \in readers : ReadFails(r)
  \/ RemoveClick
  \/ \E text \in Texts : Submit(text)
  \/ Transport

Spec == Init /\ [][Next]_vars

(***************************************************************************)
(* The same events with fewer values to draw from, and with the transport *)
(* of every send going on until its stream has ended or thrown.            *)
(***************************************************************************)
LiveTexts == { <<>>, <<"*", "b", "*">> }

LiveFiles == { f \in Files : f.name = <<"data.csv">> }

LiveChunks == { c \in Chunks : ~c.undefined }

LiveThrown == { e \in Thrown : e.isError }

LiveTransport == \E s \in 1..MaxSends : TransportOf(s, LiveChunks, LiveThrown)

LiveNext ==
  \/ \E text \in LiveTexts : Submit(text)
  \/ \E file \in LiveFiles \cup {NoFile} : FileChange(file)
  \/ \E r \in readers : ReadSucceeds(r)
  \/ \E r \in readers : ReadFails(r)
  \/ RemoveClick
  \/ LiveTransport

LiveSpec ==
  /\ Init
  /\ [][LiveNext]_vars
  /\ \A s \in 1..MaxSends : WF_vars(TransportOf(s, LiveChunks, LiveThrown))

(***************************************************************************)
(* The properties.                                                         *)
(***************************************************************************)
(***************************************************************************)
(* The conversion on its own: one send whose text is any string of at     *)
(* most MaxTextLen characters of an <input>, or the nested text            *)
(* **a*b*c**, answered by a stream of any chunks of at most MaxChunkLen    *)
(* characters, or by the nested text in one chunk.                         *)
(***************************************************************************)

\* The strings of at most n characters of A.
Strings(A, n) == UNION { [1..k -> A] : k \in 0..n }

NestedText == <<"*", "*", "a", "*", "b", "*", "c", "*", "*">>

\* Markers around a text that holds a line terminator "." does not match
\* and the newline pattern does not replace.
SeparatorTexts ==
  { <<"*", "*", "a", LineSeparator, "b", "*", "*">>,
    <<"*", "*", "a", ParagraphSeparator, "b", "*", "*">>,
    <<"*", "a", ParagraphSeparator, "b", "*">> }

FormatTexts ==
  Strings({"a", "*", Backtick}, MaxTextLen) \cup {NestedText}
    \cup SeparatorTexts

FormatChunks ==
  { [undefined |-> FALSE, text |-> t] :
      t \in (Strings({"a", "*", Backtick, "\n", "\r", LineSeparator},
                     MaxChunkLen) \ {<<>>})
               \cup {NestedText} \cup SeparatorTexts }

FormatThrown == { [isError |-> TRUE, message |-> <<"Network error">>] }

FormatNext ==
  \/ sends = <<>> /\ \E text \in FormatTexts : Submit(text)
  \/ \E s \in 1..MaxSends : TransportOf(s, FormatChunks, FormatThrown)

FormatSpec == Init /\ [][FormatNext]_vars

SendIds == 1..Len(sends)

InFlight(s) == sends[s].pc \in {"Sending", "Streaming"}

\* The places in the transcript of the entries of a kind that a send made.
EntriesOf(s, sender) ==
  { i \in 1..Len(messages) :
      messages[i].sender = sender /\ messages[i].send = s }

AllHaveText(chunks) == \A i \in 1..Len(chunks) : ~chunks[i].undefined

RECURSIVE ConcatTexts(_)
ConcatTexts(chunks) ==
  IF chunks = <<>> THEN <<>>
  ELSE Head(chunks).text \o ConcatTexts(Tail(chunks))

\* C1: whenever sendMessageStream is called, the attachment slot is already
\* none and the preview is empty, whether or not the send carries a file.
C1_AttachmentClearedBeforeCall ==
  \A i \in 1..Len(calls) :
    calls[i].attachedFile = NoFile /\ calls[i].filePreview = <<>>

\* C1: a call was made by a submit that found an attachment, after an
\* earlier attachment had been removed.
C1_Witness ==
  \E i \in 1..Len(calls) :
    /\ calls[i].rid = 2
    /\ Len(calls[i].message) = 2
    /\ Len(loaded) = 2 /\ loaded[2].over = 0

\* C2: a send that has got k >= 1 chunks with text has exactly one AI entry,
\* and that entry shows the conversion of the concatenation of all k chunks;
\* this holds after each chunk, k = 1, 2, ..., and after the stream's end.
C2_StreamedContent ==
  \A s \in SendIds :
    (sends[s].chunks # <<>> /\ AllHaveText(sends[s].chunks)) =>
      \E i \in 1..Len(messages) :
        /\ EntriesOf(s, "ai") = {i}
        /\ messages[i].content = FormatBuffer(ConcatTexts(sends[s].chunks))

\* C2: a stream delivered "**a" twice and ended normally; the entry shows the
\* conversion of "**a**a".
C2_Witness ==
  \E s \in SendIds :
    /\ sends[s].pc = "Done" /\ sends[s].thrown = <<>>
    /\ Len(sends[s].chunks) = 2 /\ AllHaveText(sends[s].chunks)
    /\ \E i \in EntriesOf(s, "ai") :
         messages[i].content = <<"<strong>", "a", "</strong>", "a">>

C3_Entries ==
  \A s \in SendIds :
    IF sends[s].thrown = <<>> THEN EntriesOf(s, "error") = {}
    ELSE /\ sends[s].pc = "Done"
         /\ \E i \in 1..Len(messages) :
              /\ EntriesOf(s, "error") = {i}
              /\ messages[i].content =
                   <<"Error: ">> \o
                     (IF sends[s].thrown[1].isError
                        THEN sends[s].thrown[1].message
                        ELSE <<"An unknown error occurred.">>)

C3_Step ==
  \A s \in 1..Len(sends') :
    (sends'[s].thrown # <<>> /\ (s > Len(sends) \/ sends[s].thrown = <<>>)) =>
      /\ ~loading' /\ ~disabled'
      /\ messages'[Len(messages')].sender = "error"
      /\ \A i \in 1..Len(messages) : messages'[i] = messages[i]

\* C3: a send that caught a failure has exactly one error entry, which shows
\* the failure's message (or the fixed text for a thrown value that is no
\* Error) and is the last entry when it is added; the step that adds it leaves
\* the loading indicator off, the input enabled and the send finished, and
\* changes no earlier entry, the send's partial AI entry included.
C3_ErrorEntry == []C3_Entries /\ [][C3_Step]_vars

\* C3: a stream threw an Error after a chunk had been shown.
C3_Witness ==
  \E s \in SendIds :
    /\ sends[s].thrown # <<>> /\ sends[s].thrown[1].isError
    /\ sends[s].chunks # <<>>
    /\ EntriesOf(s, "ai") # {} /\ EntriesOf(s, "error") # {}
    /\ ~loading /\ ~disabled

\* C4: every send that is in flight (loading on, input disabled by it)
\* reaches its end, and at its end the loading indicator is off and the input
\* enabled; a disabled input is enabled again.
C4_LoadingReleased ==
  /\ \A s \in 1..MaxSends :
       (s <= Len(sends) /\ InFlight(s)) ~>
         (s <= Len(sends) /\ sends[s].pc = "Done" /\ ~loading /\ ~disabled)
  /\ disabled ~> ~disabled

\* C4: one send has ended normally after a chunk and another has ended by a
\* thrown error; the input is enabled.
C4_Witness ==
  \E s, t \in SendIds :
    /\ sends[s].pc = "Done" /\ sends[s].thrown = <<>> /\ sends[s].chunks # <<>>
    /\ sends[t].pc = "Done" /\ sends[t].thrown # <<>>
    /\ ~loading /\ ~disabled

\* C5: at most one send is in Sending or Streaming.
C5_OneSendInFlight == Cardinality({ s \in SendIds : InFlight(s) }) <= 1

\* C6: the attachment held is the one of the read that succeeded last and the
\* preview shows its name; an attachment that a later read replaced is not
\* held and is in no call of the chat session.
C6_Replacement ==
  /\ attachedFile # NoFile =>
       /\ loaded # <<>>
       /\ attachedFile.rid = loaded[Len(loaded)].rid
       /\ filePreview = PreviewHtml(attachedFile.name)
  /\ \A k \in 1..Len(loaded) :
       loaded[k].over # 0 =>
         /\ HeldRid(attachedFile) # loaded[k].over
         /\ \A c \in 1..Len(calls) : calls[c].rid # loaded[k].over

\* C6: a second read succeeded while the first read's attachment was held,
\* and the second was then sent.
C6_Witness ==
  /\ Len(loaded) = 2 /\ loaded[2].over = 1
  /\ \E c \in 1..Len(calls) : calls[c].rid = 2

HasMarker(s) ==
  \E i \in 1..Len(s) : s[i] \in {"*", Backtick} \cup LineTerminators

\* The parts of a send with a file part.
FileParts(file, message) ==
  <<[inlineData |-> [mimeType |-> file.mimeType, data |-> file.data]],
    [text |-> message]>>

\* C7 as claimed: a blank submit with an attachment named n renders the user
\* entry `Analyze this file: n` itself and passes it as the text part.
C7_AnalyzeMessageExact ==
  \A s \in SendIds :
    (sends[s].blank /\ sends[s].file # NoFile) =>
      /\ \E i \in EntriesOf(s, "user") :
           messages[i].content = AnalyzeMessage(sends[s].file.name)
      /\ sends[s].contents =
           FileParts(sends[s].file, AnalyzeMessage(sends[s].file.name))

\* C7 as amended: a blank submit with an attachment named n passes the file
\* part and the text part `Analyze this file: n`, and renders one user entry
\* that is the markdown conversion of that string: the string itself when n
\* holds no marker.
C7_AnalyzeMessage ==
  \A s \in SendIds :
    (sends[s].blank /\ sends[s].file # NoFile) =>
      LET m == AnalyzeMessage(sends[s].file.name)
      IN  /\ \E i \in 1..Len(messages) :
               /\ EntriesOf(s, "user") = {i}
               /\ messages[i].content = FormatMessage(m)
               /\ ~HasMarker(m) => messages[i].content = m
          /\ sends[s].contents = FileParts(sends[s].file, m)

\* C7: a submit of white space alone with the attachment named *q*.xlsx.
C7_Witness ==
  \E s \in SendIds :
    /\ sends[s].blank /\ sends[s].file # NoFile
    /\ sends[s].file.name = <<"*", "q", "*", ".xlsx">>
    /\ promptValue = <<>>

HasFilePart(message) ==
  \E k \in 1..Len(message) : "inlineData" \in DOMAIN message[k]

\* C8: no two calls of the chat session carry the file of the same read; a
\* call carries a file part only when a read has succeeded since the call
\* before it.
C8_ConsumedOnce ==
  /\ \A j \in 1..Len(calls) : HasFilePart(calls[j].message) <=> calls[j].rid # 0
  /\ \A i, j \in 1..Len(calls) :
       (i < j /\ calls[j].rid # 0) =>
         /\ calls[j].rid # calls[i].rid
         /\ calls[j].nLoaded > calls[i].nLoaded

\* C8: a send with a file failed and the next send carried no file part.
C8_Witness ==
  \E i, j \in 1..Len(calls) :
    /\ i < j
    /\ calls[i].rid # 0 /\ sends[calls[i].send].thrown # <<>>
    /\ ~HasFilePart(calls[j].message)

\* C9: without an API key no event changes the transcript or the attachment
\* slot.
C9_HaltedWithoutKey ==
  [][~apiKey => (messages' = messages /\ attachedFile' = attachedFile)]_vars

C10_Step ==
  /\ Len(messages') >= Len(messages)
  /\ \A i \in 1..Len(messages) :
       /\ messages'[i].sender = messages[i].sender
       /\ messages'[i].send = messages[i].send
       /\ messages'[i].content # messages[i].content =>
            \E s \in SendIds :
              /\ sends[s].pc = "Streaming"
              /\ sends[s].aiMessageElement = i
              /\ messages[i].sender = "ai" /\ messages[i].send = s

\* C10: every step keeps the entries of the transcript and their order and
\* adds entries at the end only; the content of an entry changes only if it
\* is the AI entry of a send that is Streaming.
C10_AppendOnly == [][C10_Step]_vars

\* C10: the AI entry of a send was rewritten by a second chunk and is not the
\* last entry.
C10_Witness ==
  \E s \in SendIds :
    /\ Len(sends[s].chunks) = 2
    /\ sends[s].aiMessageElement # 0
    /\ sends[s].aiMessageElement < Len(messages)

\* A step that is a change event of the file input with no file selected,
\* or the end of a read that failed.
C11_Event ==
  \/ fileInputFile # NoFile /\ FileChange(NoFile)
  \/ \E r \in readers : ReadFails(r)

\* C11 as it was claimed: after a change event with no file selected, or a
\* read that fails, the attachment slot is none and the transcript has
\* gained no entry, whether or not an attachment was held before.
C11_LeavesNone ==
  [][C11_Event => (attachedFile' = NoFile /\ messages' = messages)]_vars

\* C11: a change event with no file selected, or a read that fails, leaves
\* the attachment slot and the preview as they were (none if none was held,
\* the held attachment otherwise) and adds no entry to the transcript.
C11_LeavesSlot ==
  [][C11_Event =>
       /\ attachedFile' = attachedFile
       /\ filePreview' = filePreview
       /\ messages' = messages
       /\ loading' = loading /\ disabled' = disabled]_vars

\* C11: a read failed while an attachment was held, and that attachment
\* is still held and previewed.
C11_Witness ==
  \E k \in 1..Len(failed) :
    /\ failed[k].over # 0
    /\ HeldRid(attachedFile) = failed[k].over
    /\ filePreview = PreviewHtml(attachedFile.name)

\* The end of a read that succeeded: the slot and the preview hold the file
\* of that read, and the other reads stay in flight.
C12_Step ==
  Len(loaded') = Len(loaded) + 1 =>
    \E r \in readers :
      /\ r.rid = loaded'[Len(loaded')].rid
      /\ attachedFile' # NoFile
      /\ attachedFile'.rid = r.rid
      /\ attachedFile'.name = r.file.name
      /\ attachedFile'.mimeType = r.file.type
      /\ filePreview' = PreviewHtml(r.file.name)
      /\ readers' = readers \ {r}

\* C12: reads are not queued: every read that completes puts its own file
\* in the attachment slot and in the preview, whatever is held and whatever
\* was selected since, so that after two overlapping reads the slot holds
\* the file whose read completed last.
C12_LastCompletedWins == [][C12_Step]_vars

\* C12: the file selected second was read first, the file selected first
\* was read while the second was held, and the first is held and previewed.
C12_Witness ==
  /\ Len(loaded) = 2
  /\ loaded[1].rid = 2 /\ loaded[2].rid = 1 /\ loaded[2].over = 2
  /\ HeldRid(attachedFile) = 1
  /\ filePreview = PreviewHtml(attachedFile.name)

\* C13: a send that received a chunk with no text is finished with an error
\* entry, and no AI entry of the send shows anything the chunk added.
C13_MalformedChunkIsError ==
  \A s \in SendIds :
    (\E k \in 1..Len(sends[s].chunks) : sends[s].chunks[k].undefined) =>
      /\ sends[s].pc = "Done"
      /\ EntriesOf(s, "error") # {}
      /\ \A i \in EntriesOf(s, "ai") :
           \A j \in 1..Len(messages[i].content) :
             messages[i].content[j] # "undefined"

(***************************************************************************)
(* A reference for the conversion, on the characters of the text: each of  *)
(* the four substitutions is applied once, to the whole result of the one  *)
(* before, and writes its tags out in characters.                          *)
(***************************************************************************)

\* The characters of a token: a tag is spelled out, any other token is a
\* character or a run of characters none of which is a marker.
TagChars(tok) ==
  CASE tok = "<strong>"  -> <<"<", "s", "t", "r", "o", "n", "g", ">">>
    [] tok = "</strong>" -> <<"<", "/", "s", "t", "r", "o", "n", "g", ">">>
    [] tok = "<em>"      -> <<"<", "e", "m", ">">>
    [] tok = "</em>"     -> <<"<", "/", "e", "m", ">">>
    [] tok = "<code>"    -> <<"<", "c", "o", "d", "e", ">">>
    [] tok = "</code>"   -> <<"<", "/", "c", "o", "d", "e", ">">>
    [] tok = "<br>"      -> <<"<", "b", "r", ">">>
    [] OTHER             -> <<tok>>

RECURSIVE Spell(_)
Spell(s) == IF s = <<>> THEN <<>> ELSE TagChars(Head(s)) \o Spell(Tail(s))

\* The characters "." does not stand for.
RefLineEnds == {"\n", "\r", "U+2028", "U+2029"}

Least(S) == CHOOSE j \in S : \A j2 \in S : j <= j2

RefIs(s, i, c) == i >= 1 /\ i <= Len(s) /\ s[i] = c

\* The position of the last character of the match of a substitution that
\* starts at i, 0 when none starts there.
RefMatchEnd(s, kind, i) ==
  CASE kind = "bold" ->
         LET ends == { j \in (i + 3)..Len(s) :
                         /\ s[j - 1] = "*" /\ s[j] = "*"
                         /\ \A m \in (i + 2)..(j - 2) :
                              s[m] \notin RefLineEnds }
         IN  IF RefIs(s, i, "*") /\ RefIs(s, i + 1, "*") /\ ends # {}
               THEN Least(ends) ELSE 0
    [] kind = "italic" ->
         LET ends == { j \in (i + 1)..Len(s) :
                         /\ s[j] = "*"
                         /\ \A m \in (i + 1)..(j - 1) :
                              s[m] \notin RefLineEnds }
         IN  IF RefIs(s, i, "*") /\ ends # {} THEN Least(ends) ELSE 0
    [] kind = "code" ->
         LET ends == { j \in (i + 2)..Len(s) :
                         /\ s[j] = Backtick
                         /\ \A m \in (i + 1)..(j - 1) : s[m] # Backtick }
         IN  IF RefIs(s, i, Backtick) /\ ends # {} THEN Least(ends) ELSE 0
    [] kind = "newline" ->
         IF RefIs(s, i, "\r") /\ RefIs(s, i + 1, "\n") THEN i + 1
         ELSE IF RefIs(s, i, "\n") \/ RefIs(s, i, "\r") THEN i
         ELSE 0

\* What a substitution writes for its match s[i..e].
RefWrite(s, kind, i, e) ==
  CASE kind = "bold" ->
         Spell(<<"<strong>">>) \o SubSeq(s, i + 2, e - 2)
           \o Spell(<<"</strong>">>)
    [] kind = "italic" ->
         Spell(<<"<em>">>) \o SubSeq(s, i + 1, e - 1) \o Spell(<<"</em>">>)
    [] kind = "code" ->
         Spell(<<"<code>">>) \o SubSeq(s, i + 1, e - 1)
           \o Spell(<<"</code>">>)
    [] kind = "newline" -> Spell(<<"<br>">>)

\* One substitution over s from position i: the matches are taken from left
\* to right and do not overlap.
RECURSIVE RefReplace(_, _, _)
RefReplace(s, kind, i) ==
  IF i > Len(s) THEN <<>>
  ELSE LET e == RefMatchEnd(s, kind, i)
       IN  IF e = 0 THEN <<s[i]>> \o RefReplace(s, kind, i + 1)
           ELSE RefWrite(s, kind, i, e) \o RefReplace(s, kind, e + 1)

\* Bold, then italic, then inline code, then line break.
RefFormat(s) ==
  CHOOSE h \in
    { RefReplace(c, "newline", 1) : c \in
      { RefReplace(e, "code", 1) : e \in
        { RefReplace(b, "italic", 1) : b \in
          { RefReplace(t, "bold", 1) : t \in {Spell(s)} } } } } : TRUE

\* The text part of a send.
TextOf(s) == sends[s].contents[Len(sends[s].contents)].text

\* C14: the user entry of every send spells the reference conversion of the
\* send's message and its AI entry spells the reference conversion of the
\* send's buffer; **a*b*c** is shown as a bold element that contains an
\* italic one; a buffer that equals the message is shown as the message is.
C14_FormatterIsReference ==
  \A s \in SendIds :
    /\ \A i \in EntriesOf(s, "user") :
         /\ Spell(messages[i].content) = RefFormat(TextOf(s))
         /\ TextOf(s) = NestedText =>
              messages[i].content =
                <<"<strong>", "a", "<em>", "b", "</em>", "c", "</strong>">>
         /\ \A j \in EntriesOf(s, "ai") :
              sends[s].buffer = TextOf(s) =>
                messages[j].content = messages[i].content
    /\ \A j \in EntriesOf(s, "ai") :
         Spell(messages[j].content) = RefFormat(sends[s].buffer)

\* C14: **a*b*c** was sent and came back in one chunk; both entries show
\* the bold element that contains the italic one.
C14_Witness ==
  \E s \in SendIds :
    /\ TextOf(s) = NestedText /\ sends[s].buffer = NestedText
    /\ \E i \in EntriesOf(s, "user") : \E j \in EntriesOf(s, "ai") :
         /\ messages[i].content =
              <<"<strong>", "a", "<em>", "b", "</em>", "c", "</strong>">>
         /\ messages[j].content = messages[i].content

\* A submit with blank text while no attachment is held leaves everything
\* as it is; the input field keeps the text it was submitted with.
C15_Step ==
  \A text \in Texts :
    (IsBlank(text) /\ attachedFile = NoFile /\ Submit(text)) =>
      /\ promptValue' = text
      /\ UNCHANGED <<messages, attachedFile, filePreview, fileInputFile,
                     loading, disabled, chat, readers, sends, calls>>

\* C15: a submit with empty or white-space text and no attachment changes
\* neither the transcript, the attachment slot, the loading indicator, the
\* input field nor the chat session, and no send ever started from one.
C15_BlankSubmitNoOp ==
  /\ [](\A s \in SendIds : ~(sends[s].blank /\ sends[s].file = NoFile))
  /\ [][C15_Step]_vars

\* C15: a blank was submitted with no attachment; the blank is still in the
\* input field and nothing else has happened.
C15_Witness ==
  /\ promptValue = <<" ", NoBreakSpace>>
  /\ sends = <<>> /\ calls = <<>>
  /\ Len(messages) = 1 /\ attachedFile = NoFile
  /\ ~loading /\ ~disabled

\* The input goes from disabled to enabled only in a step that finishes a
\* send.
C16_Step ==
  (disabled /\ ~disabled') =>
    \E s \in SendIds : InFlight(s) /\ sends'[s].pc = "Done"

\* C16: whenever a send is Sending or Streaming the input is disabled and
\* the loading indicator is on, and the input is enabled again only by the
\* end of a send.
C16_DisabledWhileInFlight ==
  /\ []((\E s \in SendIds : InFlight(s)) => (disabled /\ loading))
  /\ [][C16_Step]_vars

\* The parts of send s are the file part of the attachment held when the
\* submit was handled, if one was held, and then one text part, whose text
\* is the synthesized message for a blank submit and the submitted text
\* otherwise; the chat session was called with these parts.
C17_PartsOf(s) ==
  LET c == sends[s].contents
      f == sends[s].file
      m == TextOf(s)
  IN  /\ IF f = NoFile THEN c = <<[text |-> m]>> ELSE c = FileParts(f, m)
      /\ IF sends[s].blank THEN f # NoFile /\ m = AnalyzeMessage(f.name)
          ELSE m \in Texts /\ ~IsBlank(m)
      /\ \A k \in 1..Len(calls) :
           calls[k].send = s => calls[k].message = c

\* No step changes the parts of a send that has started.
C17_Step ==
  /\ \A s \in SendIds :
       sends'[s].contents = sends[s].contents /\ sends'[s].file = sends[s].file
  /\ \A k \in 1..Len(calls) : calls'[k] = calls[k]

\* C17: the parts of a send are fixed when the submit is handled: the file
\* part of the attachment held then, if and only if one was held, followed
\* by exactly one text part with the message; nothing that happens later,
\* an attachment or a removal included, changes them.
C17_PartsAreSnapshot ==
  /\ [](\A s \in SendIds : C17_PartsOf(s))
  /\ [][C17_Step]_vars

\* C17: a send with a file part is in flight and another file has been
\* attached since; the file part is still that of the first file.
C17_Witness ==
  \E s \in SendIds :
    /\ InFlight(s)
    /\ sends[s].file # NoFile /\ attachedFile # NoFile
    /\ attachedFile.data # sends[s].file.data
    /\ sends[s].contents[1].inlineData.data = sends[s].file.data
    /\ Len(sends[s].contents) = 2

\* Every send has exactly one user entry, which comes before its AI entry
\* and its error entry; a send that ended normally after a chunk has one AI
\* entry; when the chat session was called the input field was empty and
\* the user entry was in the transcript.
C18_Entries ==
  /\ \A s \in SendIds :
       \E i \in 1..Len(messages) :
         /\ EntriesOf(s, "user") = {i}
         /\ \A j \in EntriesOf(s, "ai") \cup EntriesOf(s, "error") : i < j
         /\ (sends[s].pc = "Done" /\ sends[s].thrown = <<>>
                /\ sends[s].chunks # <<>>) =>
              \E j \in 1..Len(messages) : EntriesOf(s, "ai") = {j}
  /\ \A k \in 1..Len(calls) :
       /\ calls[k].promptValue = <<>>
       /\ \E i \in 1..calls[k].nMessages :
            EntriesOf(calls[k].send, "user") = {i}

\* The step that starts a send appends the send's user entry to the
\* transcript and leaves the input field empty.
C18_Step ==
  Len(sends') = Len(sends) + 1 =>
    /\ Len(messages') > Len(messages)
    /\ messages'[Len(messages) + 1].sender = "user"
    /\ messages'[Len(messages) + 1].send = Len(sends')
    /\ promptValue' = <<>>

\* C18: every send that starts appends exactly one user entry and clears
\* the input field before the chat session is called; the user entry of a
\* send precedes the send's AI entry and error entry, and a send that
\* succeeds with at least one chunk has a user entry and then an AI entry.
C18_UserEntryFirst == []C18_Entries /\ [][C18_Step]_vars

\* C18: a send ended normally after a chunk; its AI entry follows its user
\* entry, and the chat session was called with the input field empty.
C18_Witness ==
  \E s \in SendIds :
    /\ sends[s].pc = "Done" /\ sends[s].thrown = <<>>
    /\ sends[s].chunks # <<>>
    /\ \E i \in 1..Len(messages) :
         EntriesOf(s, "user") = {i} /\ EntriesOf(s, "ai") = {i + 1}
    /\ \E k \in 1..Len(calls) :
         calls[k].send = s /\ calls[k].promptValue = <<>>

\* The preview is shown exactly when an attachment is held, and shows the
\* name of the attachment held.
C19_Preview ==
  IF attachedFile = NoFile THEN filePreview = <<>>
  ELSE filePreview # <<>> /\ filePreview = PreviewHtml(attachedFile.name)

\* A step that empties the attachment slot, by the remove button or by a
\* send, empties the preview and the selection of the file input; when it
\* is not the start of a send it changes neither the transcript nor the
\* loading indicator.
C19_Step ==
  (attachedFile # NoFile /\ attachedFile' = NoFile) =>
    /\ filePreview' = <<>>
    /\ fileInputFile' = NoFile
    /\ Len(sends') = Len(sends) =>
         /\ messages' = messages
         /\ loading' = loading /\ disabled' = disabled
         /\ sends' = sends

\* C19: the file preview is shown if and only if the attachment slot is
\* not empty, with the name of the attachment held; the remove button and
\* the clearing of a send empty the slot and the preview and reset the file
\* input, and the removal leaves the transcript and the loading indicator
\* as they are.
C19_PreviewIffAttached == []C19_Preview /\ [][C19_Step]_vars

\* C19: an attachment was read and then removed with the remove button,
\* with no send before or since.
C19_Witness ==
  /\ loaded # <<>> /\ sends = <<>>
  /\ attachedFile = NoFile /\ filePreview = <<>> /\ fileInputFile = NoFile
  /\ Len(messages) = 1 /\ ~loading

\* A send that has received no chunk has no AI entry; one that ended
\* normally without a chunk has its user entry and nothing else.
C20_Entries ==
  \A s \in SendIds :
    sends[s].chunks = <<>> =>
      /\ EntriesOf(s, "ai") = {}
      /\ sends[s].aiMessageElement = 0
      /\ (sends[s].pc = "Done" /\ sends[s].thrown = <<>>) =>
           /\ EntriesOf(s, "error") = {}
           /\ Cardinality(EntriesOf(s, "user")) = 1

\* The normal end of a stream that delivered no chunk adds nothing to the
\* transcript and leaves the loading indicator off and the input enabled.
C20_Step ==
  \A s \in SendIds :
    (sends[s].pc = "Streaming" /\ sends[s].chunks = <<>>
       /\ sends'[s].pc = "Done" /\ sends'[s].thrown = <<>>) =>
      /\ messages' = messages
      /\ ~loading' /\ ~disabled'

\* C20: a send whose stream ends normally without a chunk adds no AI entry
\* and no error entry: the transcript gains the user entry only, and the
\* end of the stream turns the loading indicator off and enables the input.
C20_NoChunkNoEntry == []C20_Entries /\ [][C20_Step]_vars

\* C20: the only send ended normally without a chunk; the transcript is the
\* welcome and the user entry, and the input is enabled.
C20_Witness ==
  /\ Len(sends) = 1
  /\ sends[1].pc = "Done" /\ sends[1].thrown = <<>> /\ sends[1].chunks = <<>>
  /\ Len(messages) = 2 /\ messages[2].sender = "user"
  /\ ~loading /\ ~disabled


=============================================================================
